---- MODULE Spec2Model ----
(***************************************************************************)
(* Task layout and group-interval engine of the calendar workspace.        *)
(*                                                                         *)
(* Dates are whole days (every date the program stores is a local          *)
(* midnight: date inputs are 'yyyy-MM-dd', addDays keeps the time of day,  *)
(* and toISOString/parseISO give back the same instant), so a date is an   *)
(* integer, differenceInDays(a, b) is a - b and addDays(d, n) is d + n.    *)
(* Ids are positive integers; 0 stands for an undefined groupId and for a  *)
(* null editingTaskId.  A nullable value (dragState, tempProject) is a     *)
(* sequence of length 0 or 1.                                              *)
(***************************************************************************)
EXTENDS Integers, Sequences, FiniteSets, TLC

VARIABLES
    project,          \* Workspace state `project`: [tasks, groups]
    selectedTaskIds,  \* CalendarView state, a JS Set: ids in insertion order
    dragState,        \* CalendarView state: <<>> (null) or <<DragState>>
    tempProject,      \* CalendarView state: <<>> (null) or <<Project>>
    ignoreClickRef,   \* CalendarView ref: a drag happened since the last mouse down
    isLocked,         \* Workspace state `isLocked`
    editingTaskId,    \* CalendarView state: 0 (null) or the id of the task being renamed
    gestureCount,     \* number of mouse-down gestures on tasks so far, those on a
                      \* locked project apart
    nextGroupId,      \* the id the next crypto.randomUUID() for a group yields
    lastOp,           \* what the last event decided about the project: the name of
                      \* the handler, "none" for an event that only touched the view
    slowSave,         \* db.saveProject resolves only after later events have run
    saving,           \* the projects whose `await updateProject(p)` is in flight
    taskLanes,        \* WeekRow memo: <<>> or <<[weekStart, lanes]>> of the last render
    prevTaskLanes,    \* the value of taskLanes before the last render
    gestureMoved,     \* the pointer has been 3px or more from where the button went
                      \* down, on either axis, at some mouse move of the last gesture
    pointer           \* <<>> or <<[x, y]>>: where a drag across the grid (MouseMoveWide)
                      \* last reported the pointer, until the button is released

vars == <<project, selectedTaskIds, dragState, tempProject, ignoreClickRef,
          isLocked, editingTaskId, gestureCount, nextGroupId, lastOp,
          slowSave, saving, taskLanes, prevTaskLanes, gestureMoved, pointer>>

\* What the handlers of CalendarView and GroupRelationshipView never touch.
renderVars == <<slowSave, taskLanes, prevTaskLanes>>

\* The same and the record of the pointer's travel, which only the mouse events
\* of a gesture on a task change.
envVars == <<renderVars, gestureMoved, pointer>>

----------------------------------------------------------------------------
(* Bounds and inputs *)

\* Mouse-down gestures on tasks of an unlocked project are counted and capped:
\* each one can change dates.
MaxGestures == 1

\* Groups are numbered as they are created; the numbering is capped.
MaxGroups == 2

\* Calls of handleProjectUpdate whose save is in flight at the same time.
MaxSaving == 2

\* Layout of the week grid read at mouse down (getBoundingClientRect).
DayWidth == 10
WeekHeight == 40

\* Pointer coordinates of the mouse events, relative to the page.
OriginX == 0
OriginY == 0
PointerXs == {OriginX - 3 * DayWidth, OriginX + 2}
PointerYs == {OriginY}

GroupNames == {"", "g"}

\* Inputs of the lane packer: the number of tasks, the days a task can start
\* or end on, and the Sundays of the rendered weeks (day 0 and day 7).
MaxLaneTasks == 3
LaneDays == {5, 6, 7, 8}
WeekStarts == {0, 7}

NoGroup == 0
NoTask == 0

Task(i, s, e, g) == [id |-> i, name |-> "t", startDate |-> s, endDate |-> e,
                     unitId |-> 1, groupId |-> g]

\* The project as loaded: three tasks, no groups.  Task 2 starts two days
\* after task 1 ends; tasks 2 and 3 start on the same day and overlap.
InitTasks == << Task(1, 1, 1, NoGroup), Task(2, 3, 4, NoGroup), Task(3, 3, 3, NoGroup) >>

\* A stored project of four tasks in which the first three form group 1.
FourTasks == << Task(1, 1, 1, 1), Task(2, 3, 4, 1), Task(3, 3, 3, 1), Task(4, 6, 6, NoGroup) >>
FourGroups == << [id |-> 1, name |-> "g", taskIds |-> <<1, 2, 3>>, intervals |-> <<2, 0>>] >>

DragTypes == {"move", "resize-start", "resize-end"}

----------------------------------------------------------------------------
(* Pure helpers *)

Max(a, b) == IF a >= b THEN a ELSE b

Abs(a) == IF a >= 0 THEN a ELSE -a

Range(s) == {s[i] : i \in 1..Len(s)}

\* Math.round(n / d) for d > 0: the nearest integer, halves towards +infinity.
Round(n, d) == (2 * n + d) \div (2 * d)

\* array.filter(x => !ids.includes(x))
Without(seq, ids) == SelectSeq(seq, LAMBDA x : x \notin ids)

\* tasks.find(t => t.id === id), as a sequence of zero or one task
FindTask(tasks, id) == LET hits == SelectSeq(tasks, LAMBDA t : t.id = id)
                       IN  IF Len(hits) = 0 THEN <<>> ELSE <<hits[1]>>

\* ids.map(id => tasks.find(...)).filter(Boolean)
RECURSIVE LookupAll(_, _)
LookupAll(tasks, ids) ==
    IF Len(ids) = 0 THEN <<>>
    ELSE FindTask(tasks, Head(ids)) \o LookupAll(tasks, Tail(ids))

\* Faulty variant: the element is appended, whatever its start date.
InsertByStart_Append(sorted, x) == Append(sorted, x)

\* One step of the stable sort: x goes after every element that does not
\* start later than x.
RECURSIVE InsertByStart(_, _)
InsertByStart(sorted, x) ==
    IF Len(sorted) = 0 THEN <<x>>
    ELSE IF Head(sorted).startDate <= x.startDate
         THEN <<Head(sorted)>> \o InsertByStart(Tail(sorted), x)
         ELSE <<x>> \o sorted

\* .sort((a, b) => parseISO(a.startDate).getTime() - parseISO(b.startDate).getTime())
\* Array.prototype.sort is stable.
RECURSIVE SortByStart(_)
SortByStart(ts) ==
    IF Len(ts) = 0 THEN <<>>
    ELSE InsertByStart(SortByStart(SubSeq(ts, 1, Len(ts) - 1)), ts[Len(ts)])

\* Faulty variant: the gap is not clamped at 0.
Intervals_NoClamp(ts) ==
    IF Len(ts) < 2 THEN <<>>
    ELSE [i \in 1..(Len(ts) - 1) |-> ts[i + 1].startDate - ts[i].endDate]

\* Faulty variant: one entry per task, the last task included.
Intervals_NoSlice(ts) ==
    [i \in 1..Len(ts) |-> IF i < Len(ts)
                          THEN Max(0, ts[i + 1].startDate - ts[i].endDate)
                          ELSE 0]

\* ts.slice(0, -1).map((t, i) => Math.max(0, differenceInDays(ts[i+1].startDate, t.endDate)))
Intervals(ts) ==
    IF Len(ts) < 2 THEN <<>>
    ELSE [i \in 1..(Len(ts) - 1) |-> Max(0, ts[i + 1].startDate - ts[i].endDate)]

IdsOf(ts) == [i \in 1..Len(ts) |-> ts[i].id]

----------------------------------------------------------------------------
(* Initial state *)

Init ==
    /\ project = [tasks |-> InitTasks, groups |-> <<>>]
    /\ selectedTaskIds = <<>>
    /\ dragState = <<>>
    /\ tempProject = <<>>
    /\ ignoreClickRef = FALSE
    /\ isLocked = FALSE
    /\ editingTaskId = NoTask
    /\ gestureCount = 0
    /\ nextGroupId = 1
    /\ lastOp = "none"
    /\ slowSave = FALSE
    /\ saving = <<>>
    /\ taskLanes = <<>>
    /\ prevTaskLanes = <<>>
    /\ gestureMoved = FALSE
    /\ pointer = <<>>

\* The same, for the stored project of four tasks.
InitFour ==
    /\ project = [tasks |-> FourTasks, groups |-> FourGroups]
    /\ selectedTaskIds = <<>>
    /\ dragState = <<>>
    /\ tempProject = <<>>
    /\ ignoreClickRef = FALSE
    /\ isLocked = FALSE
    /\ editingTaskId = NoTask
    /\ gestureCount = 0
    /\ nextGroupId = 2
    /\ lastOp = "none"
    /\ slowSave = FALSE
    /\ saving = <<>>
    /\ taskLanes = <<>>
    /\ prevTaskLanes = <<>>
    /\ gestureMoved = FALSE
    /\ pointer = <<>>

\* Workspace.handleProjectUpdate(p): `await updateProject(p)`, then
\* setProject(p).  When the save resolves before the next event the project is
\* set within the step; otherwise the call stays in flight (SaveProjectDone).
OnProjectUpdate(p) ==
    IF slowSave
    THEN /\ Len(saving) < MaxSaving
         /\ saving' = Append(saving, p)
         /\ UNCHANGED project
    ELSE /\ project' = p
         /\ UNCHANGED saving

\* The save at the head of the queue resolves and setProject(p) runs.
SaveProjectDone ==
    /\ saving # <<>>
    /\ project' = Head(saving)
    /\ saving' = Tail(saving)
    /\ lastOp' = "none"
    /\ UNCHANGED <<selectedTaskIds, dragState, tempProject, ignoreClickRef, isLocked,
                   editingTaskId, gestureCount, nextGroupId, envVars>>

----------------------------------------------------------------------------
(* Selection *)

\* handleTaskClick(taskId, e).  A click is delivered after the mouse button is
\* released, so no gesture is live.
HandleTaskClick(taskId, ctrl) ==
    /\ dragState = <<>>
    /\ IF editingTaskId # NoTask \/ ignoreClickRef
       THEN UNCHANGED selectedTaskIds
       ELSE selectedTaskIds' =
              IF ctrl
              THEN IF taskId \in Range(selectedTaskIds)
                   THEN Without(selectedTaskIds, {taskId})
                   ELSE Append(selectedTaskIds, taskId)
              ELSE <<taskId>>
    /\ lastOp' = "none"
    /\ UNCHANGED <<project, saving, dragState, tempProject, ignoreClickRef, isLocked,
                   editingTaskId, gestureCount, nextGroupId, envVars>>

----------------------------------------------------------------------------
(* Group model *)

\* Faulty variant: existing groups keep the selected ids.
CleanGroup_NoPurge(p, g, taskIds) == <<g>>

\* The groups left after the selected ids are purged (cleanedGroups).
CleanGroup(p, g, taskIds) ==
    LET remainingTaskIds == Without(g.taskIds, Range(taskIds))
    IN  IF Len(remainingTaskIds) = 0 THEN <<>>
        ELSE IF Len(remainingTaskIds) # Len(g.taskIds)
        THEN LET remainingTasks == SortByStart(LookupAll(p.tasks, remainingTaskIds))
                 newIntervals == IF Len(remainingTasks) > 1
                                 THEN Intervals(remainingTasks) ELSE <<>>
             IN  <<[g EXCEPT !.taskIds = remainingTaskIds, !.intervals = newIntervals]>>
        ELSE <<g>>

RECURSIVE CleanedGroups(_, _, _)
CleanedGroups(p, groups, taskIds) ==
    IF Len(groups) = 0 THEN <<>>
    ELSE CleanGroup(p, Head(groups), taskIds) \o CleanedGroups(p, Tail(groups), taskIds)

\* The tasks createGroup works on: the selection, looked up and sorted.
SelectedTasks(p, sel) == SortByStart(LookupAll(p.tasks, sel))

\* The project handleCreateGroup passes to onProjectUpdate.
CreateGroupResult(p, sel, groupName, newGroupId) ==
    LET selectedTasks == SelectedTasks(p, sel)
        taskIds == IdsOf(selectedTasks)
        intervals == Intervals(selectedTasks)
        cleanedGroups == CleanedGroups(p, p.groups, taskIds)
        newGroup == [id |-> newGroupId, name |-> groupName,
                     taskIds |-> taskIds, intervals |-> intervals]
        updatedTasks == [i \in 1..Len(p.tasks) |->
                            IF p.tasks[i].id \in Range(taskIds)
                            THEN [p.tasks[i] EXCEPT !.groupId = newGroupId]
                            ELSE p.tasks[i]]
    IN  [p EXCEPT !.tasks = updatedTasks, !.groups = Append(cleanedGroups, newGroup)]

\* Faulty variant: the check for at least two selected tasks is missing.
HandleCreateGroup_NoMinimum(groupName) ==
    /\ dragState = <<>>
    /\ nextGroupId <= MaxGroups
    /\ IF isLocked \/ groupName = ""
       THEN /\ lastOp' = "none"
            /\ UNCHANGED <<project, saving, selectedTaskIds, nextGroupId>>
       ELSE /\ OnProjectUpdate(CreateGroupResult(project, selectedTaskIds, groupName,
                                                 nextGroupId))
            /\ nextGroupId' = nextGroupId + 1
            /\ selectedTaskIds' = <<>>
            /\ lastOp' = "createGroup"
    /\ UNCHANGED <<dragState, tempProject, ignoreClickRef, isLocked,
                   editingTaskId, gestureCount, envVars>>

\* handleCreateGroup(): groupName is the answer to the prompt, and
\* crypto.randomUUID() yields an id that was never used (nextGroupId).
HandleCreateGroup(groupName) ==
    /\ dragState = <<>>
    /\ nextGroupId <= MaxGroups
    /\ IF isLocked \/ groupName = ""
       THEN /\ lastOp' = "none"
            /\ UNCHANGED <<project, saving, selectedTaskIds, nextGroupId>>
       ELSE IF Len(SelectedTasks(project, selectedTaskIds)) < 2
       THEN /\ lastOp' = "createGroupRejected"
            /\ UNCHANGED <<project, saving, selectedTaskIds, nextGroupId>>
       ELSE /\ OnProjectUpdate(CreateGroupResult(project, selectedTaskIds, groupName,
                                                 nextGroupId))
            /\ nextGroupId' = nextGroupId + 1
            /\ selectedTaskIds' = <<>>
            /\ lastOp' = "createGroup"
    /\ UNCHANGED <<dragState, tempProject, ignoreClickRef, isLocked,
                   editingTaskId, gestureCount, envVars>>

\* Faulty variant: the members keep their groupId.
DeleteGroupResult_KeepsGroupId(p, groupId) ==
    [p EXCEPT !.groups = SelectSeq(p.groups, LAMBDA g : g.id # groupId)]

\* Faulty variant: groupId is cleared on every task, whatever its group.
DeleteGroupResult_ClearsAll(p, groupId) ==
    [p EXCEPT !.groups = SelectSeq(p.groups, LAMBDA g : g.id # groupId),
              !.tasks = [i \in 1..Len(p.tasks) |-> [p.tasks[i] EXCEPT !.groupId = NoGroup]]]

\* handleDeleteGroup(groupId), offered on the card of every listed group.
DeleteGroupResult(p, groupId) ==
    LET updatedGroups == SelectSeq(p.groups, LAMBDA g : g.id # groupId)
        updatedTasks == [i \in 1..Len(p.tasks) |->
                            IF p.tasks[i].groupId = groupId
                            THEN [p.tasks[i] EXCEPT !.groupId = NoGroup]
                            ELSE p.tasks[i]]
    IN  [p EXCEPT !.groups = updatedGroups, !.tasks = updatedTasks]

HandleDeleteGroup(groupId) ==
    /\ dragState = <<>>
    /\ IF isLocked
       THEN /\ lastOp' = "none"
            /\ UNCHANGED <<project, saving>>
       ELSE /\ OnProjectUpdate(DeleteGroupResult(project, groupId))
            /\ lastOp' = "deleteGroup"
    /\ UNCHANGED <<selectedTaskIds, dragState, tempProject, ignoreClickRef,
                   isLocked, editingTaskId, gestureCount, nextGroupId, envVars>>

\* groups.find(g => g.id === groupId), as a sequence of zero or one group
FindGroup(groups, groupId) ==
    LET hits == SelectSeq(groups, LAMBDA g : g.id = groupId)
    IN  IF Len(hits) = 0 THEN <<>> ELSE <<hits[1]>>

\* The project handleUnlinkTask passes to onProjectUpdate (the group exists).
UnlinkTaskResult(p, taskId, groupId) ==
    LET group == FindGroup(p.groups, groupId)[1]
        remainingTaskIds == Without(group.taskIds, {taskId})
        remainingTasks == SortByStart(LookupAll(p.tasks, remainingTaskIds))
        newIntervals == Intervals(remainingTasks)
        updatedGroup == [group EXCEPT !.taskIds = remainingTaskIds,
                                      !.intervals = newIntervals]
        updatedGroups ==
            IF Len(remainingTaskIds) = 0
            THEN SelectSeq(p.groups, LAMBDA g : g.id # groupId)
            ELSE [i \in 1..Len(p.groups) |->
                     IF p.groups[i].id = groupId THEN updatedGroup ELSE p.groups[i]]
        updatedTasks == [i \in 1..Len(p.tasks) |->
                            IF p.tasks[i].id = taskId
                            THEN [p.tasks[i] EXCEPT !.groupId = NoGroup]
                            ELSE p.tasks[i]]
    IN  [p EXCEPT !.groups = updatedGroups, !.tasks = updatedTasks]

\* handleUnlinkTask(taskId, groupId), offered for every listed member of a group.
HandleUnlinkTask(taskId, groupId) ==
    /\ dragState = <<>>
    /\ IF isLocked \/ FindGroup(project.groups, groupId) = <<>>
       THEN /\ lastOp' = "none"
            /\ UNCHANGED <<project, saving>>
       ELSE /\ OnProjectUpdate(UnlinkTaskResult(project, taskId, groupId))
            /\ lastOp' = "unlinkTask"
    /\ UNCHANGED <<selectedTaskIds, dragState, tempProject, ignoreClickRef,
                   isLocked, editingTaskId, gestureCount, nextGroupId, envVars>>

----------------------------------------------------------------------------
(* Drag controller *)

\* Faulty variant: only the grabbed task is snapshotted.
RelatedTasks_OnlySelf(p, task, type) ==
    <<[id |-> task.id, initialStart |-> task.startDate, initialEnd |-> task.endDate]>>

\* The related set snapshotted at mouse down.
RelatedTasks(p, task, type) ==
    LET snap(t) == [id |-> t.id, initialStart |-> t.startDate, initialEnd |-> t.endDate]
    IN  IF task.groupId # NoGroup /\ type = "move"
        THEN LET members == SelectSeq(p.tasks, LAMBDA t : t.groupId = task.groupId)
             IN  [i \in 1..Len(members) |-> snap(members[i])]
        ELSE <<snap(task)>>

\* handleTaskDragStart(taskProp, type, e): mouse down on the body or on an
\* edge handle of a rendered task.
HandleTaskDragStart(taskProp, type, clientX, clientY) ==
    /\ dragState = <<>>
    /\ IF isLocked
       THEN UNCHANGED <<dragState, tempProject, ignoreClickRef, gestureCount>>
       ELSE /\ gestureCount < MaxGestures
            /\ gestureCount' = gestureCount + 1
            /\ ignoreClickRef' = FALSE
            /\ IF editingTaskId # NoTask
               THEN UNCHANGED <<dragState, tempProject>>
               ELSE LET found == FindTask(project.tasks, taskProp.id)
                        task == IF found # <<>> THEN found[1] ELSE taskProp
                    IN  /\ tempProject' = <<project>>
                        /\ dragState' = <<[task |-> task,
                                           type |-> type,
                                           initialMouseX |-> clientX,
                                           initialMouseY |-> clientY,
                                           dayWidth |-> DayWidth,
                                           weekHeight |-> IF WeekHeight > 0 THEN WeekHeight ELSE 120,
                                           taskInitialStartDate |-> task.startDate,
                                           taskInitialEndDate |-> task.endDate,
                                           relatedTasks |-> RelatedTasks(project, task, type)]>>
    /\ lastOp' = "none"
    /\ UNCHANGED <<project, saving, selectedTaskIds, isLocked, editingTaskId,
                   nextGroupId, renderVars>>

\* Faulty variant: every task of the working copy is shifted.
MoveRelated_Everything(newTasks, related, totalDayOffset) ==
    [i \in 1..Len(newTasks) |->
        [newTasks[i] EXCEPT !.startDate = @ + totalDayOffset, !.endDate = @ + totalDayOffset]]

\* The tasks of the working copy after a move by totalDayOffset days.
RECURSIVE MoveRelated(_, _, _)
MoveRelated(newTasks, related, totalDayOffset) ==
    IF Len(related) = 0 THEN newTasks
    ELSE LET r == Head(related)
             newStart == r.initialStart + totalDayOffset
             duration == r.initialEnd - r.initialStart
             newEnd == newStart + duration
             moved == [i \in 1..Len(newTasks) |->
                          IF newTasks[i].id = r.id
                          THEN [newTasks[i] EXCEPT !.startDate = newStart, !.endDate = newEnd]
                          ELSE newTasks[i]]
         IN  MoveRelated(moved, Tail(related), totalDayOffset)

\* Faulty variant: the offset is applied without the clamp.
ResizedTask_NoClamp(ds, dayOffset) ==
    IF ds.type = "resize-start"
    THEN [ds.task EXCEPT !.startDate = ds.taskInitialStartDate + dayOffset,
                         !.endDate = ds.taskInitialEndDate]
    ELSE [ds.task EXCEPT !.startDate = ds.taskInitialStartDate,
                         !.endDate = ds.taskInitialEndDate + dayOffset]

\* The task a resize writes into the working copy.
ResizedTask(ds, dayOffset) ==
    LET start0 == ds.taskInitialStartDate
        end0 == ds.taskInitialEndDate
        newStartDate == IF ds.type = "resize-start"
                        THEN (IF start0 + dayOffset > end0 THEN end0 ELSE start0 + dayOffset)
                        ELSE start0
        newEndDate == IF ds.type = "resize-start"
                      THEN end0
                      ELSE (IF end0 + dayOffset < start0 THEN start0 ELSE end0 + dayOffset)
    IN  [ds.task EXCEPT !.startDate = newStartDate, !.endDate = newEndDate]

\* The working copy handleMouseMove sets once the threshold is passed.
MovedProject(ds, tp, dx, dy) ==
    IF ds.type = "move"
    THEN LET dayOffsetHorizontal == Round(dx, ds.dayWidth)
             weekOffsetVertical == IF ds.weekHeight > 0 THEN Round(dy, ds.weekHeight) ELSE 0
             totalDayOffset == dayOffsetHorizontal + weekOffsetVertical * 7
         IN  [tp EXCEPT !.tasks = MoveRelated(tp.tasks, ds.relatedTasks, totalDayOffset)]
    ELSE LET updatedTask == ResizedTask(ds, Round(dx, ds.dayWidth))
         IN  [tp EXCEPT !.tasks = [i \in 1..Len(tp.tasks) |->
                                      IF tp.tasks[i].id = updatedTask.id
                                      THEN updatedTask ELSE tp.tasks[i]]]

\* Faulty variant: there is no threshold, every mouse move counts as a drag.
HandleMouseMove_NoThreshold(clientX, clientY) ==
    /\ dragState # <<>>
    /\ IF tempProject = <<>>
       THEN UNCHANGED <<tempProject, ignoreClickRef>>
       ELSE /\ ignoreClickRef' = TRUE
            /\ tempProject' = <<MovedProject(dragState[1], tempProject[1],
                                             clientX - dragState[1].initialMouseX,
                                             clientY - dragState[1].initialMouseY)>>
    /\ lastOp' = "none"
    /\ UNCHANGED <<project, saving, selectedTaskIds, dragState, isLocked, editingTaskId,
                   gestureCount, nextGroupId, renderVars>>

\* Faulty variant: every move past the threshold is passed to onProjectUpdate.
HandleMouseMove_Commits(clientX, clientY) ==
    /\ dragState # <<>>
    /\ LET ds == dragState[1]
           dx == clientX - ds.initialMouseX
           dy == clientY - ds.initialMouseY
       IN  IF tempProject = <<>> \/ (Abs(dx) < 3 /\ Abs(dy) < 3)
           THEN UNCHANGED <<project, saving, tempProject, ignoreClickRef>>
           ELSE /\ ignoreClickRef' = TRUE
                /\ tempProject' = <<MovedProject(ds, tempProject[1], dx, dy)>>
                /\ OnProjectUpdate(MovedProject(ds, tempProject[1], dx, dy))
    /\ lastOp' = "none"
    /\ UNCHANGED <<selectedTaskIds, dragState, isLocked, editingTaskId,
                   gestureCount, nextGroupId, renderVars>>

\* handleMouseMove(e): the window listener exists while dragState is set.
HandleMouseMove(clientX, clientY) ==
    /\ dragState # <<>>
    /\ IF tempProject = <<>>
       THEN UNCHANGED <<tempProject, ignoreClickRef>>
       ELSE LET ds == dragState[1]
                dx == clientX - ds.initialMouseX
                dy == clientY - ds.initialMouseY
            IN  IF Abs(dx) < 3 /\ Abs(dy) < 3
                THEN UNCHANGED <<tempProject, ignoreClickRef>>
                ELSE /\ ignoreClickRef' = TRUE
                     /\ tempProject' = <<MovedProject(ds, tempProject[1], dx, dy)>>
    /\ lastOp' = "none"
    /\ UNCHANGED <<project, saving, selectedTaskIds, dragState, isLocked, editingTaskId,
                   gestureCount, nextGroupId, renderVars>>

\* handleMouseUp(): the window listener exists while dragState is set.
HandleMouseUp ==
    /\ dragState # <<>>
    /\ IF tempProject # <<>>
       THEN /\ OnProjectUpdate(tempProject[1])
            /\ lastOp' = "dragCommit"
       ELSE /\ lastOp' = "none"
            /\ UNCHANGED <<project, saving>>
    /\ dragState' = <<>>
    /\ tempProject' = <<>>
    /\ UNCHANGED <<selectedTaskIds, ignoreClickRef, isLocked, editingTaskId,
                   gestureCount, nextGroupId, renderVars, gestureMoved>>

----------------------------------------------------------------------------
(* Inline rename and lock *)

\* The text of the rename field after trim(), when the edit is saved.
TrimmedNames == {"", "r"}

\* Faulty variant: the pending drag state is kept.
HandleEditStart_KeepsDrag(task) ==
    /\ IF isLocked
       THEN UNCHANGED <<selectedTaskIds, editingTaskId>>
       ELSE /\ selectedTaskIds' = <<task.id>>
            /\ editingTaskId' = task.id
    /\ lastOp' = "none"
    /\ UNCHANGED <<project, saving, dragState, tempProject, ignoreClickRef, isLocked,
                   gestureCount, nextGroupId, envVars>>

\* handleEditStart(task): double click on a rendered task.
HandleEditStart(task) ==
    /\ IF isLocked
       THEN UNCHANGED <<dragState, selectedTaskIds, editingTaskId>>
       ELSE /\ dragState' = <<>>
            /\ selectedTaskIds' = <<task.id>>
            /\ editingTaskId' = task.id
    /\ lastOp' = "none"
    /\ UNCHANGED <<project, saving, tempProject, ignoreClickRef, isLocked,
                   gestureCount, nextGroupId, envVars>>

\* handleEditSave(): blur of the rename field, or Enter.
HandleEditSave(trimmedName) ==
    /\ IF editingTaskId = NoTask
       THEN /\ lastOp' = "none"
            /\ UNCHANGED <<project, saving, editingTaskId>>
       ELSE IF trimmedName = ""
            THEN /\ editingTaskId' = NoTask
                 /\ lastOp' = "none"
                 /\ UNCHANGED <<project, saving>>
            ELSE LET updatedTasks == [i \in 1..Len(project.tasks) |->
                                         IF project.tasks[i].id = editingTaskId
                                         THEN [project.tasks[i] EXCEPT !.name = trimmedName]
                                         ELSE project.tasks[i]]
                 IN  /\ OnProjectUpdate([project EXCEPT !.tasks = updatedTasks])
                     /\ editingTaskId' = NoTask
                     /\ lastOp' = "editSave"
    /\ UNCHANGED <<selectedTaskIds, dragState, tempProject, ignoreClickRef, isLocked,
                   gestureCount, nextGroupId, envVars>>

\* handleEditKeyDown(e) with e.key === 'Escape'; Enter is HandleEditSave.
HandleEditEscape ==
    /\ editingTaskId' = NoTask
    /\ lastOp' = "none"
    /\ UNCHANGED <<project, saving, selectedTaskIds, dragState, tempProject,
                   ignoreClickRef, isLocked, gestureCount, nextGroupId, envVars>>

\* Workspace.toggleLock(): the lock button of the header.
ToggleLock ==
    /\ isLocked' = ~isLocked
    /\ lastOp' = "none"
    /\ UNCHANGED <<project, saving, selectedTaskIds, dragState, tempProject,
                   ignoreClickRef, editingTaskId, gestureCount, nextGroupId, envVars>>

----------------------------------------------------------------------------
(* Project templates *)

\* The ids crypto.randomUUID() yields for the copied tasks: ids no task of the
\* template has, one per position.
NewTaskId(tasks, i) ==
    LET ids == {tasks[j].id : j \in 1..Len(tasks)}
        top == IF ids = {} THEN 0 ELSE CHOOSE m \in ids : \A x \in ids : x <= m
    IN  top + i

\* oldIdToNewIdMap.get(oldId): the new id of the task with that id (of the
\* last one, when several tasks have it), as a sequence of zero or one id.
MappedId(tasks, oldId) ==
    LET hits == {j \in 1..Len(tasks) : tasks[j].id = oldId}
    IN  IF hits = {} THEN <<>>
        ELSE <<NewTaskId(tasks, CHOOSE j \in hits : \A k \in hits : k <= j)>>

\* group.taskIds.map(oldId => oldIdToNewIdMap.get(oldId)!).filter(Boolean)
RECURSIVE MappedIds(_, _)
MappedIds(tasks, oldIds) ==
    IF Len(oldIds) = 0 THEN <<>>
    ELSE MappedId(tasks, Head(oldIds)) \o MappedIds(tasks, Tail(oldIds))

\* addProjectFromTemplate(templateProject): the project that is saved.  The
\* groups get the ids firstGroupId, firstGroupId + 1, ...
AddProjectFromTemplateResult(templateProject, firstGroupId) ==
    LET newTasks == [i \in 1..Len(templateProject.tasks) |->
                        [templateProject.tasks[i] EXCEPT
                            !.id = NewTaskId(templateProject.tasks, i)]]
        newGroups == [k \in 1..Len(templateProject.groups) |->
                         [templateProject.groups[k] EXCEPT
                             !.id = firstGroupId + k - 1,
                             !.taskIds = MappedIds(templateProject.tasks, @)]]
    IN  [templateProject EXCEPT !.tasks = newTasks, !.groups = newGroups]

\* The project of the workspace is copied as a template and the copy is opened
\* in a workspace, whose view state is that of a fresh mount.
AddProjectFromTemplate ==
    /\ dragState = <<>>
    /\ saving = <<>>
    /\ nextGroupId + Len(project.groups) - 1 <= MaxGroups
    /\ Len(project.groups) > 0
    /\ project' = AddProjectFromTemplateResult(project, nextGroupId)
    /\ nextGroupId' = nextGroupId + Len(project.groups)
    /\ selectedTaskIds' = <<>>
    /\ tempProject' = <<>>
    /\ ignoreClickRef' = FALSE
    /\ isLocked' = FALSE
    /\ editingTaskId' = NoTask
    /\ gestureMoved' = FALSE
    /\ pointer' = <<>>
    /\ lastOp' = "template"
    /\ UNCHANGED <<dragState, saving, gestureCount, renderVars>>

----------------------------------------------------------------------------
(* Lane packer *)

Min(a, b) == IF a <= b THEN a ELSE b

\* endOfWeek(weekStart, {weekStartsOn: 0}): the last millisecond of the Saturday.
\* Every date compared with it is a midnight, so it compares as day weekStart + 6.
EndOfWeek(weekStart) == weekStart + 6

\* Faulty variant: only the tasks that start within the week are kept.
InWeek_StartOnly(task, weekStart) ==
    weekStart <= task.startDate /\ task.startDate <= EndOfWeek(weekStart)

\* The filter of arrangeTasksInLanes: the task's span meets the week.
InWeek(task, weekStart) ==
    Max(task.startDate, weekStart) <= Min(task.endDate, EndOfWeek(weekStart))

\* The comparator of sortedTasks: start ascending, then end descending, both
\* as stored in the task.
CompareForLanes(a, b) ==
    IF a.startDate - b.startDate # 0
    THEN a.startDate - b.startDate
    ELSE b.endDate - a.endDate

\* One step of the stable sort under CompareForLanes.
RECURSIVE InsertForLanes(_, _)
InsertForLanes(sorted, x) ==
    IF Len(sorted) = 0 THEN <<x>>
    ELSE IF CompareForLanes(Head(sorted), x) <= 0
         THEN <<Head(sorted)>> \o InsertForLanes(Tail(sorted), x)
         ELSE <<x>> \o sorted

RECURSIVE SortForLanes(_)
SortForLanes(ts) ==
    IF Len(ts) = 0 THEN <<>>
    ELSE InsertForLanes(SortForLanes(SubSeq(ts, 1, Len(ts) - 1)), ts[Len(ts)])

\* Faulty variant: two spans that only share a day do not count as overlapping.
HasOverlap_Strict(lane, task, weekStart) ==
    \E i \in 1..Len(lane) :
        /\ Max(task.startDate, weekStart) < Min(lane[i].endDate, EndOfWeek(weekStart))
        /\ Min(task.endDate, EndOfWeek(weekStart)) > Max(lane[i].startDate, weekStart)

\* lane.some(existingTask => tStart <= eEnd && tEnd >= eStart), on the spans
\* cut to the week.
HasOverlap(lane, task, weekStart) ==
    \E i \in 1..Len(lane) :
        LET tStart == Max(task.startDate, weekStart)
            tEnd == Min(task.endDate, EndOfWeek(weekStart))
            eStart == Max(lane[i].startDate, weekStart)
            eEnd == Min(lane[i].endDate, EndOfWeek(weekStart))
        IN  tStart <= eEnd /\ tEnd >= eStart

\* Faulty variant: only the last lane is tried before a new one is opened.
PlaceInLanes_LastLaneOnly(lanes, task, weekStart) ==
    IF Len(lanes) = 0 \/ HasOverlap(lanes[Len(lanes)], task, weekStart)
    THEN Append(lanes, <<task>>)
    ELSE [lanes EXCEPT ![Len(lanes)] = Append(@, task)]

\* The body of sortedTasks.forEach: the task goes into the first lane without
\* an overlapping member, or into a new lane at the end.
PlaceInLanes(lanes, task, weekStart) ==
    LET free == {i \in 1..Len(lanes) : ~HasOverlap(lanes[i], task, weekStart)}
    IN  IF free = {}
        THEN Append(lanes, <<task>>)
        ELSE LET first == CHOOSE i \in free : \A j \in free : i <= j
             IN  [lanes EXCEPT ![first] = Append(@, task)]

RECURSIVE PlaceAll(_, _, _)
PlaceAll(lanes, sortedTasks, weekStart) ==
    IF Len(sortedTasks) = 0 THEN lanes
    ELSE PlaceAll(PlaceInLanes(lanes, Head(sortedTasks), weekStart),
                  Tail(sortedTasks), weekStart)

\* Faulty variant: the lanes of the previous call are kept and filled further.
ArrangeTasksInLanes_KeepsLanes(tasks, weekStart) ==
    PlaceAll(IF taskLanes = <<>> THEN <<>> ELSE taskLanes[1].lanes,
             SortForLanes(SelectSeq(tasks, LAMBDA t : InWeek(t, weekStart))), weekStart)

\* arrangeTasksInLanes(tasks, weekStart)
ArrangeTasksInLanes(tasks, weekStart) ==
    LET weekTasks == SelectSeq(tasks, LAMBDA t : InWeek(t, weekStart))
        sortedTasks == SortForLanes(weekTasks)
    IN  PlaceAll(<<>>, sortedTasks, weekStart)

\* A render of the WeekRow of weekStart: taskLanes is computed from the tasks
\* of the displayed project (no filter set).
WeekRow(weekStart) ==
    LET displayProject == IF tempProject # <<>> THEN tempProject[1] ELSE project
    IN  /\ taskLanes' = <<[tasks |-> displayProject.tasks,
                           weekStart |-> weekStart,
                           lanes |-> ArrangeTasksInLanes(displayProject.tasks, weekStart)]>>
        /\ prevTaskLanes' = taskLanes
        /\ lastOp' = "none"
        /\ UNCHANGED <<project, saving, selectedTaskIds, dragState, tempProject,
                       ignoreClickRef, isLocked, editingTaskId, gestureCount,
                       nextGroupId, slowSave, gestureMoved, pointer>>

----------------------------------------------------------------------------
(* Specification *)

GroupIds(p) == {p.groups[i].id : i \in 1..Len(p.groups)}

\* The ids of the rendered tasks.
TaskIds == {project.tasks[i].id : i \in 1..Len(project.tasks)}

TaskClick == \E t \in TaskIds, ctrl \in BOOLEAN : HandleTaskClick(t, ctrl)

CreateGroup == \E n \in GroupNames : HandleCreateGroup(n)

DeleteGroup == \E g \in GroupIds(project) : HandleDeleteGroup(g)

UnlinkTask ==
    \E i \in 1..Len(project.groups) :
        \E t \in Range(project.groups[i].taskIds) \cap TaskIds :
            HandleUnlinkTask(t, project.groups[i].id)

TaskDragStart ==
    \E i \in 1..Len(project.tasks), type \in DragTypes :
        /\ HandleTaskDragStart(project.tasks[i], type, OriginX, OriginY)
        /\ gestureMoved' = FALSE
        /\ pointer' = <<>>

\* The pointer at (clientX, clientY) is 3px or more from the gesture's origin.
PastThreshold(clientX, clientY) ==
    \/ Abs(clientX - dragState[1].initialMouseX) >= 3
    \/ Abs(clientY - dragState[1].initialMouseY) >= 3

MouseMove ==
    \E x \in PointerXs, y \in PointerYs :
        /\ HandleMouseMove(x, y)
        /\ gestureMoved' = (gestureMoved \/ PastThreshold(x, y))
        /\ UNCHANGED pointer

MouseUp == HandleMouseUp /\ pointer' = <<>>

Next ==
    \/ TaskClick
    \/ CreateGroup
    \/ DeleteGroup
    \/ UnlinkTask
    \/ TaskDragStart
    \/ MouseMove
    \/ MouseUp

Spec == Init /\ [][Next]_vars

\* Regrouping in the project of four tasks: selection, createGroup and drags.
NextFour ==
    \/ TaskClick
    \/ CreateGroup
    \/ TaskDragStart
    \/ MouseMove
    \/ MouseUp

SpecFour == InitFour /\ [][NextFour]_vars

\* The task lists handed to the lane packer: MaxLaneTasks tasks, each spanning
\* any days of LaneDays.
LaneSpans == {sp \in LaneDays \X LaneDays : sp[1] <= sp[2]}
LaneInputs ==
    {[i \in 1..MaxLaneTasks |-> Task(i, f[i][1], f[i][2], NoGroup)] :
        f \in [1..MaxLaneTasks -> LaneSpans]}

InitLanes ==
    /\ project \in {[tasks |-> ts, groups |-> <<>>] : ts \in LaneInputs}
    /\ selectedTaskIds = <<>>
    /\ dragState = <<>>
    /\ tempProject = <<>>
    /\ ignoreClickRef = FALSE
    /\ isLocked = FALSE
    /\ editingTaskId = NoTask
    /\ gestureCount = 0
    /\ nextGroupId = 1
    /\ lastOp = "none"
    /\ slowSave = FALSE
    /\ saving = <<>>
    /\ taskLanes = <<>>
    /\ prevTaskLanes = <<>>
    /\ gestureMoved = FALSE
    /\ pointer = <<>>

RenderWeek == \E w \in WeekStarts : WeekRow(w)

\* Renders of the week rows of a stored project.
NextLanes == RenderWeek

SpecLanes == InitLanes /\ [][NextLanes]_vars

\* The project as loaded, with a store whose saves resolve late.
InitAsync ==
    /\ project = [tasks |-> InitTasks, groups |-> <<>>]
    /\ selectedTaskIds = <<>>
    /\ dragState = <<>>
    /\ tempProject = <<>>
    /\ ignoreClickRef = FALSE
    /\ isLocked = FALSE
    /\ editingTaskId = NoTask
    /\ gestureCount = 0
    /\ nextGroupId = 1
    /\ lastOp = "none"
    /\ slowSave = TRUE
    /\ saving = <<>>
    /\ taskLanes = <<>>
    /\ prevTaskLanes = <<>>
    /\ gestureMoved = FALSE
    /\ pointer = <<>>

\* The events of the workspace (selection, createGroup, deleteGroup, drags) and
\* the completion of the saves in flight.
NextAsync ==
    \/ TaskClick
    \/ CreateGroup
    \/ DeleteGroup
    \/ TaskDragStart
    \/ MouseMove
    \/ MouseUp
    \/ SaveProjectDone

SpecAsync == InitAsync /\ [][NextAsync]_vars

\* Pointer positions of a drag across the grid: three days to the left, a day
\* and a half to the left or to the right, two pixels to the right, each in the
\* row of the task or one week row further down.
WidePointerXs == {OriginX - 3 * DayWidth, OriginX - (3 * DayWidth) \div 2,
                  OriginX + 2, OriginX + (3 * DayWidth) \div 2}
WidePointerYs == {OriginY, OriginY + WeekHeight}

MouseMoveWide ==
    \E x \in WidePointerXs, y \in WidePointerYs :
        /\ HandleMouseMove(x, y)
        /\ gestureMoved' = (gestureMoved \/ PastThreshold(x, y))
        /\ pointer' = <<[x |-> x, y |-> y]>>

\* Drag gestures on the project of four tasks.
NextDrag ==
    \/ TaskDragStart
    \/ MouseMoveWide
    \/ MouseUp

SpecDrag == InitFour /\ [][NextDrag]_vars

\* Copies of the project of four tasks made from it as a template, and drags
\* on the original and on the copies.
NextTemplate ==
    \/ AddProjectFromTemplate
    \/ TaskDragStart
    \/ MouseMoveWide
    \/ MouseUp

SpecTemplate == InitFour /\ [][NextTemplate]_vars

EditStart == \E i \in 1..Len(project.tasks) : HandleEditStart(project.tasks[i])

EditSave == \E n \in TrimmedNames : HandleEditSave(n)

EditEscape == HandleEditEscape

\* Clicks, drags, inline renames and the lock button on the project as loaded.
NextEdit ==
    \/ TaskClick
    \/ TaskDragStart
    \/ MouseMove
    \/ MouseUp
    \/ EditStart
    \/ EditSave
    \/ EditEscape
    \/ ToggleLock

SpecEdit == Init /\ [][NextEdit]_vars

----------------------------------------------------------------------------
(* Properties of the group model *)

\* The task with the given id in project p (ids are unique).
TaskOf(p, id) == p.tasks[CHOOSE i \in 1..Len(p.tasks) : p.tasks[i].id = id]

\* The group with the given id in project p.
GroupOf(p, gid) == p.groups[CHOOSE k \in 1..Len(p.groups) : p.groups[k].id = gid]

\* The ids of the selected tasks that exist in project p.
SelectedIn(p, sel) == Range(sel) \cap {p.tasks[i].id : i \in 1..Len(p.tasks)}

\* ids lists exactly the members of set, each once, by start date ascending.
OrderedByStart(p, ids, set) ==
    /\ Range(ids) = set
    /\ Len(ids) = Cardinality(set)
    /\ \A i \in 1..Len(ids), j \in 1..Len(ids) :
           i < j => TaskOf(p, ids[i]).startDate <= TaskOf(p, ids[j]).startDate

\* intervals records, for each adjacent pair of ids, the gap in days from the
\* end of the first to the start of the second, and 0 when they overlap.
GapsOf(p, ids, intervals) ==
    /\ Len(intervals) = Len(ids) - 1
    /\ \A i \in 1..(Len(ids) - 1) :
           LET gap == TaskOf(p, ids[i + 1]).startDate - TaskOf(p, ids[i]).endDate
           IN  intervals[i] = IF gap > 0 THEN gap ELSE 0

\* A step in which handleCreateGroup created a group.
CreateGroupStep == nextGroupId' = nextGroupId + 1

\* C1: membership is bidirectional: every task whose groupId is set appears in
\* the taskIds of the group with that id, and every id in a group's taskIds
\* names a task whose groupId is that group's id.
C1_BidirectionalMembership ==
    /\ \A i \in 1..Len(project.tasks) :
           project.tasks[i].groupId # NoGroup =>
               \E k \in 1..Len(project.groups) :
                   /\ project.groups[k].id = project.tasks[i].groupId
                   /\ project.tasks[i].id \in Range(project.groups[k].taskIds)
    /\ \A k \in 1..Len(project.groups) :
           \A j \in 1..Len(project.groups[k].taskIds) :
               \E i \in 1..Len(project.tasks) :
                   /\ project.tasks[i].id = project.groups[k].taskIds[j]
                   /\ project.tasks[i].groupId = project.groups[k].id

\* A group of two is left by an unlink that followed a drag which changed a
\* date; the unlinked task is ungrouped.
C1_Witness ==
    /\ lastOp = "unlinkTask"
    /\ \E i \in 1..Len(project.tasks) : project.tasks[i].startDate # InitTasks[i].startDate
    /\ \E k \in 1..Len(project.groups) : Len(project.groups[k].taskIds) = 2
    /\ \E i \in 1..Len(project.tasks) : project.tasks[i].groupId = NoGroup

\* C2: no group with fewer than 2 task ids exists in the group collection.
C2_NoGroupBelowTwo ==
    \A k \in 1..Len(project.groups) : Len(project.groups[k].taskIds) >= 2

\* C3: unlinkTask on a group with exactly 2 members deletes the group and
\* clears groupId on the unlinked task and on the remaining member.
C3_UnlinkPairDeletesGroup ==
    [][\A g \in GroupIds(project) :
         \A t \in Range(GroupOf(project, g).taskIds) :
            (HandleUnlinkTask(t, g) /\ ~isLocked /\ Len(GroupOf(project, g).taskIds) = 2)
            => /\ g \notin GroupIds(project')
               /\ \A i \in 1..Len(project'.tasks) :
                      project'.tasks[i].id \in Range(GroupOf(project, g).taskIds)
                      => project'.tasks[i].groupId = NoGroup]_vars

\* C4: each task id occurs in the taskIds of at most one group, and at most
\* once within it; after createGroup the selected ids occur in the new group only.
C4_AtMostOneGroup ==
    \A i \in 1..Len(project.tasks) :
        Cardinality({kj \in (1..Len(project.groups)) \X (1..Len(project.tasks)) :
                        /\ kj[2] <= Len(project.groups[kj[1]].taskIds)
                        /\ project.groups[kj[1]].taskIds[kj[2]] = project.tasks[i].id}) <= 1

\* createGroup has just moved a task out of an older group that still exists.
C4_Witness ==
    /\ lastOp = "createGroup"
    /\ Len(project.groups) = 2
    /\ Len(project.groups[1].taskIds) < Len(project.groups[2].taskIds)

\* C5: for every group, intervals.length equals taskIds.length - 1.
C5_IntervalsLength ==
    \A k \in 1..Len(project.groups) :
        Len(project.groups[k].intervals) = Len(project.groups[k].taskIds) - 1

\* unlinkTask has shrunk a group of three to two members with one interval.
C5_Witness ==
    /\ lastOp = "unlinkTask"
    /\ \E k \in 1..Len(project.groups) :
           /\ Len(project.groups[k].taskIds) = 2
           /\ Len(project.groups[k].intervals) = 1

\* C6: createGroup with at least 2 selected tasks appends a group with a new
\* id whose taskIds are the selected tasks by start date ascending, whose
\* intervals[i] is max(0, days from the end of task i to the start of task
\* i+1), and sets groupId to the new id on exactly the selected tasks.
C6_CreateGroupResult ==
    [][CreateGroupStep =>
         LET new == project'.groups[Len(project'.groups)]
             sel == SelectedIn(project, selectedTaskIds)
         IN  /\ Cardinality(sel) >= 2
             /\ new.id \notin GroupIds(project)
             /\ OrderedByStart(project, new.taskIds, sel)
             /\ GapsOf(project, new.taskIds, new.intervals)
             /\ \A i \in 1..Len(project'.tasks) :
                    (project'.tasks[i].groupId = new.id) <=> (project'.tasks[i].id \in sel)]_vars

\* createGroup has grouped the three tasks: a gap of two days, then an overlap.
C6_Witness ==
    /\ lastOp = "createGroup"
    /\ \E k \in 1..Len(project.groups) :
           /\ Len(project.groups[k].taskIds) = 3
           /\ project.groups[k].taskIds[1] = 1
           /\ project.groups[k].intervals = <<2, 0>>
           /\ \A i \in 1..Len(project.tasks) :
                  project.tasks[i].groupId = project.groups[k].id

\* C7: when createGroup removes some but not all members from an existing
\* group, that group's taskIds become the remaining members by current start
\* date ascending, and its intervals are the gaps between adjacent taskIds.
C7_PurgeResortsRemaining ==
    [][CreateGroupStep =>
         \A k \in 1..Len(project.groups) :
            LET g == project.groups[k]
                remaining == Range(g.taskIds) \ SelectedIn(project, selectedTaskIds)
            IN  (remaining # {} /\ remaining # Range(g.taskIds))
                => /\ g.id \in GroupIds(project')
                   /\ OrderedByStart(project, GroupOf(project', g.id).taskIds, remaining)
                   /\ GapsOf(project, GroupOf(project', g.id).taskIds,
                             GroupOf(project', g.id).intervals)]_vars

\* C8: unlinkTask that leaves at least 2 members results in a group whose
\* taskIds are the remaining members by current start date ascending, whose
\* intervals are the gaps between adjacent taskIds, and clears groupId on the
\* unlinked task.
C8_UnlinkResortsRemaining ==
    [][\A g \in GroupIds(project) :
         \A t \in Range(GroupOf(project, g).taskIds) :
            (HandleUnlinkTask(t, g) /\ ~isLocked /\ Len(GroupOf(project, g).taskIds) >= 3)
            => /\ g \in GroupIds(project')
               /\ OrderedByStart(project, GroupOf(project', g).taskIds,
                                 Range(GroupOf(project, g).taskIds) \ {t})
               /\ GapsOf(project, GroupOf(project', g).taskIds,
                         GroupOf(project', g).intervals)
               /\ TaskOf(project', t).groupId = NoGroup]_vars

\* C9: every entry of every group's intervals is >= 0.
C9_IntervalsNonNegative ==
    \A k \in 1..Len(project.groups) :
        \A i \in 1..Len(project.groups[k].intervals) : project.groups[k].intervals[i] >= 0

\* A group records 0 between two consecutive members that overlap in time.
C9_Witness ==
    \E k \in 1..Len(project.groups) :
        \E i \in 1..Len(project.groups[k].intervals) :
            /\ i < Len(project.groups[k].taskIds)
            /\ project.groups[k].intervals[i] = 0
            /\ TaskOf(project, project.groups[k].taskIds[i + 1]).startDate
                 < TaskOf(project, project.groups[k].taskIds[i]).endDate

\* C10: createGroup attempted with fewer than 2 selected tasks changes nothing:
\* the tasks, their groupIds and the groups are as before.
C10_RejectedCreateGroupNoChange ==
    [][\A n \in GroupNames :
          (Cardinality(SelectedIn(project, selectedTaskIds)) < 2 /\ HandleCreateGroup(n))
          => project' = project]_vars

\* createGroup was attempted with a single selected task and rejected.
C10_Witness ==
    /\ lastOp = "createGroupRejected"
    /\ Len(selectedTaskIds) = 1
    /\ project.groups = <<>>

\* C11: deleteGroup(g) removes group g and clears groupId on every task that
\* had groupId g; all other groups, in their order, and every other field of
\* every task are unchanged.
C11_DeleteGroupFrame ==
    [][\A g \in GroupIds(project) :
          (lastOp' = "deleteGroup" /\ HandleDeleteGroup(g))
          => /\ g \notin GroupIds(project')
             /\ project'.groups = SelectSeq(project.groups, LAMBDA x : x.id # g)
             /\ Len(project'.tasks) = Len(project.tasks)
             /\ \A i \in 1..Len(project.tasks) :
                    LET old == project.tasks[i]
                        new == project'.tasks[i]
                    IN  /\ new.groupId = IF old.groupId = g THEN NoGroup ELSE old.groupId
                        /\ [new EXCEPT !.groupId = NoGroup] = [old EXCEPT !.groupId = NoGroup]]_vars

\* deleteGroup has removed one of two groups: its former member is ungrouped
\* and the members of the other group keep their groupId.
C11_Witness ==
    /\ lastOp = "deleteGroup"
    /\ nextGroupId = 3
    /\ Len(project.groups) = 1
    /\ \E i \in 1..Len(project.tasks) : project.tasks[i].groupId = NoGroup
    /\ \E i \in 1..Len(project.tasks) : project.tasks[i].groupId = project.groups[1].id

----------------------------------------------------------------------------
(* Properties of the drag controller *)

\* The step is a release of the mouse button that ends a live gesture.
ReleaseStep == dragState # <<>> /\ dragState' = <<>>

\* C12: a committed move drag of a grouped task by n days shifts the start and
\* the end of every task sharing its groupId by exactly n days, so the members'
\* durations and pairwise date differences are those at pointer-down.
C12_GroupMovesRigidly ==
    [][(ReleaseStep /\ dragState[1].type = "move" /\ dragState[1].task.groupId # NoGroup)
       => LET grabbed == dragState[1].task
              n == TaskOf(project', grabbed.id).startDate - TaskOf(project, grabbed.id).startDate
          IN  \A i \in 1..Len(project.tasks) :
                  project.tasks[i].groupId = grabbed.groupId
                  => /\ project'.tasks[i].startDate = project.tasks[i].startDate + n
                     /\ project'.tasks[i].endDate = project.tasks[i].endDate + n]_vars

\* A move of the group of three by four days (three columns back, one row down)
\* has been committed; the fourth task is where it was.
C12_Witness ==
    /\ lastOp = "dragCommit"
    /\ gestureCount = 1
    /\ \A i \in 1..3 : /\ project.tasks[i].startDate = FourTasks[i].startDate + 4
                       /\ project.tasks[i].endDate = FourTasks[i].endDate + 4
    /\ project.tasks[4] = FourTasks[4]

\* Every task of project p starts no later than it ends.
DatesOrdered(p) == \A i \in 1..Len(p.tasks) : p.tasks[i].startDate <= p.tasks[i].endDate

\* C13: resizing never inverts a task: a resize-start whose offset would put the
\* start after the end yields start = end, a resize-end whose offset would put
\* the end before the start yields end = start, and in every working copy and
\* committed collection every task has start <= end.
C13_ResizeNeverInverts ==
    /\ [](DatesOrdered(project) /\ (tempProject # <<>> => DatesOrdered(tempProject[1])))
    /\ [][\A x \in WidePointerXs, y \in WidePointerYs :
            (dragState # <<>> /\ dragState[1].type # "move" /\ PastThreshold(x, y)
               /\ HandleMouseMove(x, y))
            => LET ds == dragState[1]
                   start0 == TaskOf(project, ds.task.id).startDate
                   end0 == TaskOf(project, ds.task.id).endDate
                   offset == Round(x - ds.initialMouseX, DayWidth)
                   new == TaskOf(tempProject'[1], ds.task.id)
               IN  /\ (ds.type = "resize-start" /\ start0 + offset > end0)
                        => (new.startDate = end0 /\ new.endDate = end0)
                   /\ (ds.type = "resize-end" /\ end0 + offset < start0)
                        => (new.startDate = start0 /\ new.endDate = start0)]_vars

\* The start of task 2 (days 3..4) is being dragged two days to the right: the
\* working copy shows it on day 4 only.
C13_Witness ==
    /\ dragState # <<>>
    /\ dragState[1].type = "resize-start"
    /\ dragState[1].task.id = 2
    /\ gestureMoved
    /\ TaskOf(project, 2).startDate = 3
    /\ TaskOf(tempProject[1], 2).startDate = 4
    /\ TaskOf(tempProject[1], 2).endDate = 4

OffsetAt(pos) ==
    Round(pos.x - dragState[1].initialMouseX, DayWidth)
      + 7 * Round(pos.y - dragState[1].initialMouseY, WeekHeight)

\* Project p holds every related task of the live gesture at its snapshotted
\* start and end plus d days.
RelatedAt(p, d) ==
    \A k \in 1..Len(dragState[1].relatedTasks) :
        LET r == dragState[1].relatedTasks[k]
        IN  /\ TaskOf(p, r.id).startDate = r.initialStart + d
            /\ TaskOf(p, r.id).endDate = r.initialEnd + d

\* C18: once a gesture has passed the 3px threshold, after every later pointer
\* move the working copy holds, for every related task, its snapshotted start
\* and end plus d, with d = round(dx / columnWidth) + 7 * round(dy / rowHeight)
\* taken from the gesture origin to the current pointer position (d = 0 when the
\* pointer has returned to the origin), and the release commits that offset.
C18_WorkingCopyTracksPointer ==
    /\ []((gestureMoved /\ dragState # <<>> /\ pointer # <<>> /\ dragState[1].type = "move")
             => RelatedAt(tempProject[1], OffsetAt(pointer[1])))
    /\ [][(ReleaseStep /\ gestureMoved /\ pointer # <<>> /\ dragState[1].type = "move")
            => RelatedAt(project', OffsetAt(pointer[1]))]_vars

\* C19: if the pointer is released without ever having moved 3px or more on
\* either axis, no mutation occurs (the committed tasks and groups are those at
\* pointer-down) and the gesture acts as a plain click: the click that follows
\* is not suppressed and updates the selection for the task (with ctrl or meta
\* its membership is toggled, without them it becomes the only selected task).
C19_ReleaseBelowThresholdIsClick ==
    [][/\ (ReleaseStep /\ ~gestureMoved) => (project' = project /\ ~ignoreClickRef')
       /\ \A t \in TaskIds, ctrl \in BOOLEAN :
             (gestureCount > 0 /\ ~gestureMoved /\ editingTaskId = NoTask
                /\ HandleTaskClick(t, ctrl))
             => Range(selectedTaskIds') =
                  IF ctrl
                  THEN (IF t \in Range(selectedTaskIds)
                        THEN Range(selectedTaskIds) \ {t}
                        ELSE Range(selectedTaskIds) \cup {t})
                  ELSE {t}]_vars

\* The button was released on a task after a move of 2px only, and the click
\* that followed has selected the task.
C19_Witness ==
    /\ gestureCount = 1
    /\ ~gestureMoved
    /\ dragState = <<>>
    /\ ~ignoreClickRef
    /\ project.tasks = InitTasks
    /\ selectedTaskIds = <<2>>
    /\ lastOp = "none"

----------------------------------------------------------------------------
(* Properties of the lane packer *)

\* The span of task t cut to the week of weekStart.
ClampedStart(t, weekStart) == IF t.startDate >= weekStart THEN t.startDate ELSE weekStart
ClampedEnd(t, weekStart) == IF t.endDate <= weekStart + 6 THEN t.endDate ELSE weekStart + 6

\* Spans [sA, eA] and [sB, eB] overlap iff max(sA, sB) <= min(eA, eB).
SpansOverlap(a, b, weekStart) ==
    LET sA == ClampedStart(a, weekStart)
        eA == ClampedEnd(a, weekStart)
        sB == ClampedStart(b, weekStart)
        eB == ClampedEnd(b, weekStart)
    IN  (IF sA >= sB THEN sA ELSE sB) <= (IF eA <= eB THEN eA ELSE eB)

\* C14: within any single lane returned by the lane packer for a week, no two
\* tasks' week-clamped spans overlap.
C14_NoOverlapInLane ==
    taskLanes # <<>> =>
        \A l \in 1..Len(taskLanes[1].lanes) :
            LET lane == taskLanes[1].lanes[l]
            IN  \A i \in 1..Len(lane), j \in 1..Len(lane) :
                    i # j => ~SpansOverlap(lane[i], lane[j], taskLanes[1].weekStart)

\* The week of day 7 is packed into two lanes, one of them holding two tasks,
\* one of which started before the week.
C14_Witness ==
    /\ taskLanes # <<>>
    /\ taskLanes[1].weekStart = 7
    /\ Len(taskLanes[1].lanes) = 2
    /\ \E l \in 1..2 :
           /\ Len(taskLanes[1].lanes[l]) = 2
           /\ taskLanes[1].lanes[l][1].startDate < 7

\* ts is in the order of the reference algorithm: week-clamped start ascending,
\* ties by week-clamped end descending.
InReferenceOrder(ts, weekStart) ==
    \A i \in 1..Len(ts), j \in 1..Len(ts) :
        i < j => \/ ClampedStart(ts[i], weekStart) < ClampedStart(ts[j], weekStart)
                 \/ /\ ClampedStart(ts[i], weekStart) = ClampedStart(ts[j], weekStart)
                    /\ ClampedEnd(ts[i], weekStart) >= ClampedEnd(ts[j], weekStart)

\* First fit of the reference algorithm: each task of ts, in order, goes into
\* the first lane (in creation order) with no overlapping member, else into a
\* new lane appended at the end.
RECURSIVE ReferenceFirstFit(_, _, _)
ReferenceFirstFit(lanes, ts, weekStart) ==
    IF Len(ts) = 0 THEN lanes
    ELSE LET t == Head(ts)
             fits(l) == \A i \in 1..Len(lanes[l]) : ~SpansOverlap(lanes[l][i], t, weekStart)
             next == IF \E l \in 1..Len(lanes) : fits(l)
                     THEN LET l0 == CHOOSE l \in 1..Len(lanes) :
                                       fits(l) /\ \A m \in 1..(l - 1) : ~fits(m)
                          IN  [lanes EXCEPT ![l0] = Append(@, t)]
                     ELSE Append(lanes, <<t>>)
         IN  ReferenceFirstFit(next, Tail(ts), weekStart)

\* C15: the lane packer's output equals that of the reference algorithm: the
\* tasks are processed in order of week-clamped start ascending with ties broken
\* by week-clamped end descending (in some order where both are equal), and each
\* task is placed in the first lane containing no overlapping member, else in a
\* new lane appended at the end.
C15_EqualsReferencePacking ==
    taskLanes # <<>> =>
        LET ws == taskLanes[1].weekStart
            weekTasks == SelectSeq(taskLanes[1].tasks,
                                   LAMBDA t : ClampedStart(t, ws) <= ClampedEnd(t, ws))
        IN  \E perm \in Permutations(1..Len(weekTasks)) :
                LET ordered == [i \in 1..Len(weekTasks) |-> weekTasks[perm[i]]]
                IN  /\ InReferenceOrder(ordered, ws)
                    /\ taskLanes[1].lanes = ReferenceFirstFit(<<>>, ordered, ws)

----------------------------------------------------------------------------
(* Properties of the update path *)

\* C20: every operation is applied on top of the result of the previously
\* committed operation, also while the asynchronous persistence of that
\* operation is still pending: the project an operation reads when it passes
\* its result to the update callback is the result passed by the operation
\* before it, so the final collection contains the effects of both.
C20_NoLostUpdate ==
    [][(saving # <<>> /\ Len(saving') > Len(saving))
       => project = saving[Len(saving)]]_vars

----------------------------------------------------------------------------
(* Properties of the gestures: drag, rename, lock *)

\* A step that turns a task into the one being renamed.
EditStartStep == editingTaskId = NoTask /\ editingTaskId' # NoTask

\* C21: a drag and an inline rename are never live together: dragState and
\* editingTaskId are never both non-null; a mouse down on a task while a
\* rename is active starts no drag, and the step that starts a rename leaves
\* dragState null.
C21_OneGestureLive ==
    /\ [](~(dragState # <<>> /\ editingTaskId # NoTask))
    /\ [][(editingTaskId # NoTask /\ gestureCount' = gestureCount + 1) => dragState' = <<>>]_vars
    /\ [][EditStartStep => dragState' = <<>>]_vars

\* A rename was started on a task while a drag on it was pending, and the
\* drag state is gone.
C21_Witness ==
    /\ editingTaskId # NoTask
    /\ dragState = <<>>
    /\ gestureCount > 0
    /\ tempProject # <<>>
    /\ ~isLocked

\* displayProject = tempProject || project: the collection the view renders.
DisplayProject == IF tempProject # <<>> THEN tempProject[1] ELSE project

\* C22: the working copy exists only during a live drag: tempProject is
\* non-null only if dragState is non-null, so with no drag state the view
\* renders the committed collection.
C22_WorkingCopyOnlyInDrag ==
    /\ tempProject # <<>> => dragState # <<>>
    /\ dragState = <<>> => DisplayProject = project

\* The ids of the related set of the live drag, as the code takes it at
\* pointer-down: the tasks sharing the grabbed task's groupId for a move of a
\* grouped task, the grabbed task alone otherwise.
RelatedIds(p, ds) ==
    IF ds.type = "move" /\ ds.task.groupId # NoGroup
    THEN {p.tasks[i].id : i \in {j \in 1..Len(p.tasks) : p.tasks[j].groupId = ds.task.groupId}}
    ELSE {ds.task.id}

\* C23: a drag, from pointer-down through commit, changes only startDate and
\* endDate of the tasks of the related set: the groups (taskIds, intervals), and
\* every task's id, groupId, name and unit are unchanged, and so are the dates
\* of the tasks outside the related set; for a resize the related set is the
\* grabbed task alone, also when the task is grouped.
C23_DragChangesOnlyRelatedDates ==
    [][ReleaseStep
       => LET ds == dragState[1]
          IN  /\ project'.groups = project.groups
              /\ Len(project'.tasks) = Len(project.tasks)
              /\ \A i \in 1..Len(project.tasks) :
                     LET old == project.tasks[i]
                         new == project'.tasks[i]
                     IN  /\ [new EXCEPT !.startDate = 0, !.endDate = 0]
                              = [old EXCEPT !.startDate = 0, !.endDate = 0]
                         /\ old.id \notin RelatedIds(project, ds) => new = old]_vars

\* A resize of the start of task 2, a member of group 1, by three days has
\* been committed: task 2 is on days 0..4, every other task and the group are
\* as stored.
C23_Witness ==
    /\ lastOp = "dragCommit"
    /\ gestureCount = 1
    /\ project.tasks[2] = [FourTasks[2] EXCEPT !.startDate = 0]
    /\ \A i \in {1, 3, 4} : project.tasks[i] = FourTasks[i]
    /\ project.groups = FourGroups

----------------------------------------------------------------------------
(* Properties of the template copy *)

\* Membership is bidirectional in project p.
BidirectionalMembership(p) ==
    /\ \A i \in 1..Len(p.tasks) :
           p.tasks[i].groupId # NoGroup =>
               \E k \in 1..Len(p.groups) :
                   /\ p.groups[k].id = p.tasks[i].groupId
                   /\ p.tasks[i].id \in Range(p.groups[k].taskIds)
    /\ \A k \in 1..Len(p.groups) :
           \A j \in 1..Len(p.groups[k].taskIds) :
               \E i \in 1..Len(p.tasks) :
                   /\ p.tasks[i].id = p.groups[k].taskIds[j]
                   /\ p.tasks[i].groupId = p.groups[k].id

\* C28: the project addProjectFromTemplate creates from a template in which
\* membership is bidirectional has bidirectional membership too.
C28_TemplateCopyKeepsMembership ==
    [][(lastOp' = "template" /\ BidirectionalMembership(project))
       => BidirectionalMembership(project')]_vars

\* The groupId of the task is set, and project p has no group with that id
\* that lists the task.
DanglingGroupId(p, task) ==
    /\ task.groupId # NoGroup
    /\ ~\E k \in 1..Len(p.groups) :
           /\ p.groups[k].id = task.groupId
           /\ task.id \in Range(p.groups[k].taskIds)

\* C24: a task whose groupId names a group that does not exist, or that does
\* not list the task, is treated as ungrouped: a move drag started on it has a
\* related set of that task alone, and its commit changes the dates of no
\* other task.
C24_DanglingGroupIdIsUngrouped ==
    /\ []((dragState # <<>> /\ dragState[1].type = "move"
             /\ DanglingGroupId(project, dragState[1].task))
           => IdsOf(dragState[1].relatedTasks) = <<dragState[1].task.id>>)
    /\ [][(ReleaseStep /\ dragState[1].type = "move"
             /\ DanglingGroupId(project, dragState[1].task))
           => \A i \in 1..Len(project.tasks) :
                  project.tasks[i].id # dragState[1].task.id
                  => project'.tasks[i] = project.tasks[i]]_vars

----------------------------------------------------------------------------
(* Properties of the order of a new group *)

\* C25: when two selected tasks have the same start date, createGroup puts
\* them into taskIds in the order of their ids, whatever the order in which
\* they were selected.
C25_TiesOrderedById ==
    [][CreateGroupStep =>
         LET ids == project'.groups[Len(project'.groups)].taskIds
         IN  \A j \in 1..(Len(ids) - 1) :
                 TaskOf(project, ids[j]).startDate = TaskOf(project, ids[j + 1]).startDate
                 => ids[j] < ids[j + 1]]_vars

----------------------------------------------------------------------------
(* Properties of the lock *)

\* The selection handleTaskClick(taskId, e) yields when it is not ignored.
ClickedSelection(sel, taskId, ctrl) ==
    IF ctrl
    THEN IF taskId \in Range(sel) THEN Without(sel, {taskId}) ELSE Append(sel, taskId)
    ELSE <<taskId>>

\* C26: a gesture that moved past the 3px threshold does not change the
\* selection, as the click after its release is ignored; the suppression ends
\* at the next pointer-down on a task, so a click with no rename active that
\* follows a pointer-down with no move past the threshold is not suppressed
\* and updates the selection, also when the project has been locked in between.
C26_SuppressionEndsAtPointerDown ==
    /\ []((~gestureMoved /\ dragState = <<>>) => ~ignoreClickRef)
    /\ [][gestureMoved /\ MouseUp => selectedTaskIds' = selectedTaskIds]_vars
    /\ [][\A t \in TaskIds, ctrl \in BOOLEAN :
            (gestureMoved /\ HandleTaskClick(t, ctrl))
            => selectedTaskIds' = selectedTaskIds]_vars
    /\ [][\A t \in TaskIds, ctrl \in BOOLEAN :
            (~gestureMoved /\ editingTaskId = NoTask /\ HandleTaskClick(t, ctrl))
            => selectedTaskIds' = ClickedSelection(selectedTaskIds, t, ctrl)]_vars

\* C27: while the project is locked no change is committed: no handler
\* invokes the update callback between a lock and the next unlock, also not
\* for a drag or an inline rename that was started before the lock.
C27_NoCommitWhileLocked ==
    [][isLocked => (lastOp' = "none" /\ project' = project /\ saving' = saving)]_vars

----------------------------------------------------------------------------
(* Properties of the lane layout *)

\* The tasks of ts whose week-clamped span holds day d of the week.
TasksOnDay(ts, weekStart, d) ==
    {i \in 1..Len(ts) : /\ ClampedStart(ts[i], weekStart) <= d
                        /\ d <= ClampedEnd(ts[i], weekStart)}

\* The largest number of tasks of ts on one day of the week.
MaxOnOneDay(ts, weekStart) ==
    LET counts == {Cardinality(TasksOnDay(ts, weekStart, d)) : d \in weekStart..(weekStart + 6)}
    IN  CHOOSE m \in counts : \A c \in counts : c <= m

\* C29: the number of lanes the packer returns for a week is the largest
\* number of tasks meeting the week whose week-clamped spans share a day, the
\* fewest lanes any layout without overlap needs.
C29_LaneCountIsMaxOverlap ==
    taskLanes # <<>> =>
        Len(taskLanes[1].lanes) = MaxOnOneDay(taskLanes[1].tasks, taskLanes[1].weekStart)

\* Three tasks are packed into two lanes: the task that opened the second
\* lane starts before the one that was then added to the first lane.
C29_Witness ==
    /\ taskLanes # <<>>
    /\ Len(taskLanes[1].lanes) = 2
    /\ Len(taskLanes[1].lanes[1]) = 2
    /\ Len(taskLanes[1].lanes[2]) = 1
    /\ taskLanes[1].lanes[2][1].startDate < taskLanes[1].lanes[1][2].startDate

\* The positions <<lane, index>> at which the task with this id is placed.
PlacesOf(lanes, id) ==
    UNION {{<<l, k>> : k \in {j \in 1..Len(lanes[l]) : lanes[l][j].id = id}} :
              l \in 1..Len(lanes)}

\* Task t has a day in the week that starts on weekStart.
MeetsWeek(t, weekStart) ==
    \E d \in weekStart..(weekStart + 6) : t.startDate <= d /\ d <= t.endDate

\* C30: the lanes are a partition of the tasks that meet the week: each such
\* task is in exactly one lane, once; every placed task is a task of the input
\* that meets the week; no lane is empty.
C30_LanesPartitionWeekTasks ==
    taskLanes # <<>> =>
        LET ts == taskLanes[1].tasks
            ws == taskLanes[1].weekStart
            lanes == taskLanes[1].lanes
        IN  /\ \A i \in 1..Len(ts) :
                   MeetsWeek(ts[i], ws) => Cardinality(PlacesOf(lanes, ts[i].id)) = 1
            /\ \A l \in 1..Len(lanes) :
                   /\ Len(lanes[l]) > 0
                   /\ \A k \in 1..Len(lanes[l]) :
                          \E i \in 1..Len(ts) : ts[i] = lanes[l][k] /\ MeetsWeek(ts[i], ws)

\* The week of day 7 is packed from a task that ended before it, which is in
\* no lane, and a task that began before it and runs into it, which is placed.
C30_Witness ==
    /\ taskLanes # <<>>
    /\ taskLanes[1].weekStart = 7
    /\ \E i \in 1..Len(taskLanes[1].tasks) :
           /\ taskLanes[1].tasks[i].endDate < 7
           /\ PlacesOf(taskLanes[1].lanes, taskLanes[1].tasks[i].id) = {}
    /\ \E l \in 1..Len(taskLanes[1].lanes) :
           \E k \in 1..Len(taskLanes[1].lanes[l]) :
               /\ taskLanes[1].lanes[l][k].startDate < 7
               /\ taskLanes[1].lanes[l][k].endDate >= 7

====
